---- MODULE Spec2Model ----
(***************************************************************************)
(* Model of the fusion chat route: callGemini, callOpenAI, heuristicMerge, *)
(* synthesizeWithOpenAI and POST, and of the Chat component that calls it. *)
(*                                                                         *)
(* JavaScript strings are sequences of characters (one-character TLA+      *)
(* strings, or a code-point name such as "U+00DF" for a non-ASCII          *)
(* character).  JavaScript values are records [t |-> tag, v |-> payload].  *)
(***************************************************************************)
EXTENDS Integers, Sequences, FiniteSets, TLC

\* ------------------------------------------------------------ bounds

\* Largest number of leading pad characters put before a marker in a reply.
MaxPad == 1
\* Number of requests the route handles in one behaviour.
MaxRequests == 2
\* Number of requests the Chat component posts in one behaviour.
MaxSends == 2

\* ------------------------------------------------------------ strings

\* The characters of a TLA+ string literal, as a sequence.
Str(s) == [i \in 1..Len(s) |-> SubSeq(s, i, i)]

\* LATIN SMALL LETTER SHARP S: its upper case is the two characters "SS".
SharpS == "U+00DF"

LowerLetters == Str("abcdefghijklmnopqrstuvwxyz")
UpperLetters == Str("ABCDEFGHIJKLMNOPQRSTUVWXYZ")

\* String.prototype.toUpperCase on one character (full case mapping).
UpperChar(c) ==
    IF c = SharpS THEN <<"S", "S">>
    ELSE IF \E i \in 1..26 : LowerLetters[i] = c
         THEN <<UpperLetters[CHOOSE i \in 1..26 : LowerLetters[i] = c]>>
         ELSE <<c>>

\* String.prototype.toUpperCase: every character mapped, halves joined.
RECURSIVE toUpperCase(_)
toUpperCase(s) ==
    IF s = <<>> THEN <<>>
    ELSE IF Len(s) = 1 THEN UpperChar(s[1])
    ELSE LET h == Len(s) \div 2 IN
         toUpperCase(SubSeq(s, 1, h)) \o toUpperCase(SubSeq(s, h + 1, Len(s)))

\* Whether m occurs in s at the 0-based offset k.
OccursAt(s, m, k) ==
    /\ k + Len(m) <= Len(s)
    /\ \A j \in 1..Len(m) : s[k + j] = m[j]

\* String.prototype.includes
includes(s, m) == \E k \in 0..Len(s) : OccursAt(s, m, k)

\* String.prototype.indexOf: the first 0-based offset, -1 when absent.
indexOf(s, m) ==
    IF includes(s, m)
    THEN CHOOSE k \in 0..Len(s) :
            OccursAt(s, m, k) /\ \A k2 \in 0..(k - 1) : ~OccursAt(s, m, k2)
    ELSE -1

\* String.prototype.slice(k) for k >= 0.
slice(s, k) == IF k >= Len(s) THEN <<>> ELSE SubSeq(s, k + 1, Len(s))

\* String.prototype.startsWith
startsWith(s, m) == OccursAt(s, m, 0)

WhiteSpace == {" ", "\n", "\t", "\r"}

RECURSIVE trimStart(_)
trimStart(s) ==
    IF s # <<>> /\ Head(s) \in WhiteSpace THEN trimStart(Tail(s)) ELSE s

RECURSIVE trimEnd(_)
trimEnd(s) ==
    IF s # <<>> /\ s[Len(s)] \in WhiteSpace
    THEN trimEnd(SubSeq(s, 1, Len(s) - 1))
    ELSE s

\* String.prototype.trim
trim(s) == trimEnd(trimStart(s))

\* ------------------------------------------------------------ values

Undefined == [t |-> "undef", v |-> <<>>]
JNull == [t |-> "null", v |-> <<>>]
JBool(b) == [t |-> "bool", v |-> b]
JNum(n) == [t |-> "num", v |-> n]
JStr(s) == [t |-> "str", v |-> s]
\* An array: the sequence of its elements.
JArr(es) == [t |-> "arr", v |-> es]
\* An object: the sequence of its <<key, value>> members, in insertion order.
JObj(ms) == [t |-> "obj", v |-> ms]

\* JavaScript truthiness (ToBoolean).
Truthy(x) ==
    CASE x.t = "undef" -> FALSE
      [] x.t = "null" -> FALSE
      [] x.t = "bool" -> x.v
      [] x.t = "num" -> x.v # 0
      [] x.t = "str" -> x.v # <<>>
      [] OTHER -> TRUE

\* x?.key : the member of an object, undefined for anything else.
Prop(x, key) ==
    IF x.t = "obj" /\ \E i \in 1..Len(x.v) : x.v[i][1] = key
    THEN x.v[CHOOSE i \in 1..Len(x.v) : x.v[i][1] = key][2]
    ELSE Undefined

\* x?.[0] : the first element of an array, undefined for anything else.
First(x) == IF x.t = "arr" /\ x.v # <<>> THEN x.v[1] ELSE Undefined

\* ------------------------------------------------------------ JSON

Digits == Str("0123456789")
IsDigit(c) == \E i \in 1..10 : Digits[i] = c
DigitVal(c) == (CHOOSE i \in 1..10 : Digits[i] = c) - 1

ParseFail == [ok |-> FALSE, val |-> Undefined, pos |-> 0]
ParseOk(val, pos) == [ok |-> TRUE, val |-> val, pos |-> pos]

\* The first position at or after i (1-based) that holds no JSON white space.
RECURSIVE SkipWs(_, _)
SkipWs(s, i) ==
    IF i <= Len(s) /\ s[i] \in WhiteSpace THEN SkipWs(s, i + 1) ELSE i

\* The first position at or after i that holds no digit.
RECURSIVE DigitsEnd(_, _)
DigitsEnd(s, i) ==
    IF i <= Len(s) /\ IsDigit(s[i]) THEN DigitsEnd(s, i + 1) ELSE i

\* The number written by the digits s[i..j-1].
RECURSIVE NumVal(_, _, _)
NumVal(s, i, j) ==
    IF j <= i THEN 0 ELSE 10 * NumVal(s, i, j - 1) + DigitVal(s[j - 1])

\* A JSON number at i (integers without sign, fraction or exponent): a
\* leading 0 ends the number, as the JSON grammar has it.
ParseNumber(s, i) ==
    IF s[i] = "0" THEN ParseOk(JNum(0), i + 1)
    ELSE LET j == DigitsEnd(s, i) IN ParseOk(JNum(NumVal(s, i, j)), j)

\* The rest of a JSON string whose opening quote precedes i; acc is the text
\* read so far.  A raw control character or an unknown escape is an error.
RECURSIVE ScanString(_, _, _)
ScanString(s, i, acc) ==
    IF i > Len(s) THEN ParseFail
    ELSE IF s[i] = "\"" THEN ParseOk(JStr(acc), i + 1)
    ELSE IF s[i] \in {"\n", "\t", "\r"} THEN ParseFail
    ELSE IF s[i] = "\\"
         THEN IF i + 1 > Len(s) THEN ParseFail
              ELSE IF s[i + 1] \in {"\"", "\\", "/"}
                   THEN ScanString(s, i + 2, Append(acc, s[i + 1]))
              ELSE IF s[i + 1] = "n" THEN ScanString(s, i + 2, Append(acc, "\n"))
              ELSE IF s[i + 1] = "t" THEN ScanString(s, i + 2, Append(acc, "\t"))
              ELSE IF s[i + 1] = "r" THEN ScanString(s, i + 2, Append(acc, "\r"))
              ELSE ParseFail
    ELSE ScanString(s, i + 1, Append(acc, s[i]))

\* Object members after a repeated key: the later value replaces the earlier
\* one, which keeps its place.
SetMember(ms, k, val) ==
    IF \E i \in 1..Len(ms) : ms[i][1] = k
    THEN [i \in 1..Len(ms) |-> IF ms[i][1] = k THEN <<k, val>> ELSE ms[i]]
    ELSE Append(ms, <<k, val>>)

RECURSIVE ParseValue(_, _)
RECURSIVE ParseMembers(_, _, _)
RECURSIVE ParseElements(_, _, _)

\* The members of an object from position i, which follows "{" or ","; acc
\* holds the members read so far.
ParseMembers(s, i, acc) ==
    LET k == SkipWs(s, i) IN
    IF k > Len(s) \/ s[k] # "\"" THEN ParseFail
    ELSE LET key == ScanString(s, k + 1, <<>>) IN
         IF ~key.ok THEN ParseFail
         ELSE LET c == SkipWs(s, key.pos) IN
              IF c > Len(s) \/ s[c] # ":" THEN ParseFail
              ELSE LET val == ParseValue(s, c + 1) IN
                   IF ~val.ok THEN ParseFail
                   ELSE LET e == SkipWs(s, val.pos)
                            ms == SetMember(acc, key.val.v, val.val)
                        IN IF e > Len(s) THEN ParseFail
                           ELSE IF s[e] = "}" THEN ParseOk(JObj(ms), e + 1)
                           ELSE IF s[e] = "," THEN ParseMembers(s, e + 1, ms)
                           ELSE ParseFail

\* The elements of an array from position i, which follows "[" or ",".
ParseElements(s, i, acc) ==
    LET val == ParseValue(s, i) IN
    IF ~val.ok THEN ParseFail
    ELSE LET e == SkipWs(s, val.pos)
             es == Append(acc, val.val)
         IN IF e > Len(s) THEN ParseFail
            ELSE IF s[e] = "]" THEN ParseOk(JArr(es), e + 1)
            ELSE IF s[e] = "," THEN ParseElements(s, e + 1, es)
            ELSE ParseFail

\* One JSON value from position i, leading white space skipped.
ParseValue(s, i) ==
    LET k == SkipWs(s, i) IN
    IF k > Len(s) THEN ParseFail
    ELSE IF s[k] = "{"
         THEN LET c == SkipWs(s, k + 1) IN
              IF c <= Len(s) /\ s[c] = "}" THEN ParseOk(JObj(<<>>), c + 1)
              ELSE ParseMembers(s, k + 1, <<>>)
    ELSE IF s[k] = "["
         THEN LET c == SkipWs(s, k + 1) IN
              IF c <= Len(s) /\ s[c] = "]" THEN ParseOk(JArr(<<>>), c + 1)
              ELSE ParseElements(s, k + 1, <<>>)
    ELSE IF s[k] = "\"" THEN ScanString(s, k + 1, <<>>)
    ELSE IF IsDigit(s[k]) THEN ParseNumber(s, k)
    ELSE IF OccursAt(s, Str("null"), k - 1) THEN ParseOk(JNull, k + 4)
    ELSE IF OccursAt(s, Str("true"), k - 1) THEN ParseOk(JBool(TRUE), k + 4)
    ELSE IF OccursAt(s, Str("false"), k - 1) THEN ParseOk(JBool(FALSE), k + 5)
    ELSE ParseFail

\* JSON.parse: [ok |-> FALSE] stands for the SyntaxError it throws.
JSONparse(s) ==
    LET r == ParseValue(s, 1) IN
    IF r.ok /\ SkipWs(s, r.pos) = Len(s) + 1 THEN r ELSE ParseFail

\* The decimal digits of a natural number.
RECURSIVE NumToStr(_)
NumToStr(n) ==
    IF n < 10 THEN <<Digits[n + 1]>>
    ELSE NumToStr(n \div 10) \o <<Digits[(n % 10) + 1]>>

\* One character as it stands inside a JSON string literal.
EscapeChar(c) ==
    CASE c = "\"" -> <<"\\", "\"">>
      [] c = "\\" -> <<"\\", "\\">>
      [] c = "\n" -> <<"\\", "n">>
      [] c = "\t" -> <<"\\", "t">>
      [] c = "\r" -> <<"\\", "r">>
      [] OTHER -> <<c>>

RECURSIVE EscapeChars(_)
EscapeChars(s) ==
    IF s = <<>> THEN <<>>
    ELSE IF Len(s) = 1 THEN EscapeChar(s[1])
    ELSE LET h == Len(s) \div 2 IN
         EscapeChars(SubSeq(s, 1, h)) \o EscapeChars(SubSeq(s, h + 1, Len(s)))

\* A string as a JSON string literal.
Quote(s) == <<"\"">> \o EscapeChars(s) \o <<"\"">>

RECURSIVE Spaces(_)
Spaces(n) == IF n <= 0 THEN <<>> ELSE <<" ">> \o Spaces(n - 1)

\* The line break and indentation before an item at nesting depth level; empty
\* when no gap is asked for.
Indent(gap, level) == IF gap = 0 THEN <<>> ELSE <<"\n">> \o Spaces(gap * level)

RECURSIVE SerializeValue(_, _, _)
RECURSIVE SerializeItems(_, _, _, _, _)

\* Items i.. of an array (isObj FALSE) or object (isObj TRUE), separated by
\* commas, each on its own indented line when gap > 0.
SerializeItems(items, i, isObj, gap, level) ==
    IF i > Len(items) THEN <<>>
    ELSE (IF i > 1 THEN <<",">> ELSE <<>>)
         \o Indent(gap, level)
         \o (IF isObj
             THEN Quote(items[i][1]) \o <<":">>
                  \o (IF gap = 0 THEN <<>> ELSE <<" ">>)
                  \o SerializeValue(items[i][2], gap, level)
             ELSE SerializeValue(items[i], gap, level))
         \o SerializeItems(items, i + 1, isObj, gap, level)

\* The JSON text of a value that sits at nesting depth level.
SerializeValue(x, gap, level) ==
    CASE x.t = "null" -> Str("null")
      [] x.t = "undef" -> Str("null")
      [] x.t = "bool" -> IF x.v THEN Str("true") ELSE Str("false")
      [] x.t = "num" -> NumToStr(x.v)
      [] x.t = "str" -> Quote(x.v)
      [] x.t = "arr" ->
            IF x.v = <<>> THEN Str("[]")
            ELSE <<"[">> \o SerializeItems(x.v, 1, FALSE, gap, level + 1)
                 \o Indent(gap, level) \o <<"]">>
      [] OTHER ->
            IF x.v = <<>> THEN Str("{}")
            ELSE <<"{">> \o SerializeItems(x.v, 1, TRUE, gap, level + 1)
                 \o Indent(gap, level) \o <<"}">>

\* JSON.stringify(x, null, gap): a string, or undefined for undefined.
JSONstringify(x, gap) ==
    IF x.t = "undef" THEN Undefined ELSE JStr(SerializeValue(x, gap, 0))

\* ------------------------------------------------------------ heuristicMerge

\* const markers = ['SCRIPT:', 'VIDEO:', 'ASSETS:', 'TRANSCRIPT:']
markers == <<Str("SCRIPT:"), Str("VIDEO:"), Str("ASSETS:"), Str("TRANSCRIPT:")>>

VARIABLE mParts    \* the parts object as the latest call of heuristicMerge left it

\* parts declared once outside the function: a call starts with the buckets
\* the call before it filled.
EmptyPartsShared == mParts

\* const parts = { script: '', video: '', general: '' }, made anew in each call
EmptyParts == [script |-> <<>>, video |-> <<>>, general |-> <<>>]

\* One turn of extractByMarker's loop, for marker m on text txt: the offset is
\* looked up in the upper-cased text and applied to the text itself.
extractOne(parts, txt, m) ==
    IF includes(toUpperCase(txt), m)
    THEN LET idx == indexOf(toUpperCase(txt), m)
             segment == trim(slice(txt, idx + Len(m)))
         IN IF startsWith(m, Str("SCRIPT"))
            THEN [parts EXCEPT !.script = @ \o <<"\n">> \o segment]
            ELSE IF startsWith(m, Str("VIDEO"))
                 THEN [parts EXCEPT !.video = @ \o <<"\n">> \o segment]
                 ELSE [parts EXCEPT !.general = @ \o <<"\n">> \o segment]
    ELSE parts

\* extractByMarker(txt), from marker number i on.
RECURSIVE extractFrom(_, _, _)
extractFrom(parts, txt, i) ==
    IF i > Len(markers) THEN parts
    ELSE extractFrom(extractOne(parts, txt, markers[i]), txt, i + 1)

extractByMarker(parts, txt) == extractFrom(parts, txt, 1)

\* The structured result: JSON.stringify({ merged: { gemini, openai } }, null, 2)
mergedJson(gjson, ojson) ==
    JSONstringify(
        JObj(<< <<Str("merged"),
                  JObj(<< <<Str("gemini"), gjson>>, <<Str("openai"), ojson>> >>)>> >>),
        2).v

NoReply == Str("(no reply)")

\* longestWins with > for >=: replies of equal length prefer the first.
longestWinsTiesToGemini(geminiText, openaiText) ==
    LET prefer == IF Len(openaiText) > Len(geminiText)
                  THEN openaiText ELSE geminiText
    IN Str("--Merged result (heuristic)--\n\n[From Gemini]\n")
       \o (IF geminiText # <<>> THEN geminiText ELSE NoReply)
       \o Str("\n\n[From OpenAI]\n")
       \o (IF openaiText # <<>> THEN openaiText ELSE NoReply)
       \o Str("\n\n[Preferred]\n") \o prefer \o <<"\n">>

\* The result when no marker was found: both replies and the longer one.
longestWins(geminiText, openaiText) ==
    LET prefer == IF Len(openaiText) >= Len(geminiText)
                  THEN openaiText ELSE geminiText
    IN Str("--Merged result (heuristic)--\n\n[From Gemini]\n")
       \o (IF geminiText # <<>> THEN geminiText ELSE NoReply)
       \o Str("\n\n[From OpenAI]\n")
       \o (IF openaiText # <<>> THEN openaiText ELSE NoReply)
       \o Str("\n\n[Preferred]\n") \o prefer \o <<"\n">>

ScriptHeading == Str("\n== Script ==\n")
VideoHeading == Str("\n== Video Instructions / Assets ==\n")
OtherHeading == Str("\n== Other ==\n")
SectionsHeader == Str("--Merged Result (heuristic)--\n")

\* The result built from the non-empty buckets.
sections(parts) ==
    SectionsHeader
    \o (IF parts.script # <<>> THEN ScriptHeading \o parts.script \o <<"\n">> ELSE <<>>)
    \o (IF parts.video # <<>> THEN VideoHeading \o parts.video \o <<"\n">> ELSE <<>>)
    \o (IF parts.general # <<>> THEN OtherHeading \o parts.general \o <<"\n">> ELSE <<>>)

\* heuristicMerge with each JSON.parse in a try block of its own: the
\* structured result is built when either reply parses.
heuristicMergeEitherParses(geminiText, openaiText) ==
    LET g == JSONparse(geminiText)
        o == JSONparse(openaiText)
        parts == extractByMarker(extractByMarker(EmptyParts, geminiText), openaiText)
    IN IF g.ok \/ o.ok
       THEN mergedJson(IF g.ok THEN g.val ELSE JNull, IF o.ok THEN o.val ELSE JNull)
       ELSE IF parts.script = <<>> /\ parts.video = <<>> /\ parts.general = <<>>
            THEN longestWins(geminiText, openaiText)
            ELSE sections(parts)

\* The three paths in order: both replies parse as JSON, a marker was found,
\* neither.
heuristicMerge(geminiText, openaiText) ==
    LET g == JSONparse(geminiText)
        o == JSONparse(openaiText)
        parts == extractByMarker(extractByMarker(EmptyParts, geminiText), openaiText)
    IN IF g.ok /\ o.ok THEN mergedJson(g.val, o.val)
       ELSE IF parts.script = <<>> /\ parts.video = <<>> /\ parts.general = <<>>
            THEN longestWins(geminiText, openaiText)
            ELSE sections(parts)

\* ------------------------------------------------------------ adapters

\* What an upstream HTTP call ends with: a 2xx response carrying data, or an
\* error (transport failure or non-2xx status), which axios throws.
HttpError == [ok |-> FALSE, data |-> Undefined]
HttpOk(data) == [ok |-> TRUE, data |-> data]

\* A catch block that posts the request once more after an error.
reissuedOnError(http) == IF http.ok THEN 0 ELSE 1

\* HTTP requests posted again after the call ended with http: the catch
\* blocks of callGemini, callOpenAI and synthesizeWithOpenAI log the error and
\* return { ok: false, error }; none calls axios again.
reissued(http) == 0

\* { ok: false, error }: no text, no raw.
Failure == [ok |-> FALSE, text |-> Undefined, raw |-> Undefined]

\* Whether callGemini reaches axios.post: nothing is tested before the call;
\* the key, present or not, is passed as a query parameter.
callGeminiIssues(geminiKey) == TRUE

\* callGemini once the HTTP call has ended.
callGemini(http) ==
    IF http.ok
    THEN LET raw == http.data
             candidate ==
                 Prop(First(Prop(Prop(First(Prop(raw, Str("candidates"))),
                                      Str("content")),
                                 Str("parts"))),
                      Str("text"))
         IN IF Truthy(candidate)
            THEN [ok |-> TRUE, text |-> candidate, raw |-> raw]
            ELSE [ok |-> TRUE, text |-> JSONstringify(raw, 0), raw |-> raw]
    ELSE Failure

\* callOpenAIIssues without the test of the key before the call.
callOpenAIIssuesAlways(openaiKey) == TRUE

\* Whether callOpenAI reaches axios.post: it returns at once without a key.
callOpenAIIssues(openaiKey) == openaiKey

\* callOpenAI once the HTTP call has ended.
callOpenAI(http) ==
    IF http.ok
    THEN [ok |-> TRUE,
          text |-> Prop(Prop(First(Prop(http.data, Str("choices"))),
                             Str("message")),
                        Str("content")),
          raw |-> http.data]
    ELSE Failure

\* Whether synthesizeWithOpenAI reaches axios.post.
synthesizeIssues(openaiKey) == openaiKey

\* synthesizeWithOpenAI once the HTTP call has ended: { ok, text }, no raw.
synthesizeWithOpenAI(http) ==
    IF http.ok
    THEN [ok |-> TRUE,
          text |-> Prop(Prop(First(Prop(http.data, Str("choices"))),
                             Str("message")),
                        Str("content")),
          raw |-> Undefined]
    ELSE Failure

\* ------------------------------------------------------------ upstream

\* Reply texts the upstream services produce in the model.
UpstreamTexts == {Str(""), Str("Hi"), Str("7"), Str("SCRIPT: x")}

\* A generateContent payload whose first candidate carries text t.
GeminiBody(t) ==
    JObj(<< <<Str("candidates"),
              JArr(<< JObj(<< <<Str("content"),
                  JObj(<< <<Str("parts"),
                      JArr(<< JObj(<< <<Str("text"), JStr(t)>> >>) >>)>> >>)>> >>) >>)>> >>)

\* A chat-completions payload whose first choice carries content t.
OpenAIBody(t) ==
    JObj(<< <<Str("choices"),
              JArr(<< JObj(<< <<Str("message"),
                  JObj(<< <<Str("content"), JStr(t)>> >>)>> >>) >>)>> >>)

\* 2xx payloads without the expected reply field.
NoCandidates == JObj(<< <<Str("candidates"), JArr(<<>>)>> >>)
NoChoices == JObj(<< <<Str("choices"), JArr(<<>>)>> >>)
EmptyObject == JObj(<<>>)

GeminiHttp ==
    {HttpError} \cup {HttpOk(GeminiBody(t)) : t \in UpstreamTexts}
                \cup {HttpOk(NoCandidates), HttpOk(EmptyObject)}

OpenAIHttp ==
    {HttpError} \cup {HttpOk(OpenAIBody(t)) : t \in UpstreamTexts}
                \cup {HttpOk(NoChoices), HttpOk(EmptyObject)}

\* ------------------------------------------------------------ requests

Prompts == {"", "hi"}
Modes == {"absent", "fusion", "single"}
Models == {"absent", "both", "gemini", "openai", "other"}

\* Request bodies: text that is no JSON, the JSON value null, a JSON value
\* that is no object (a number, a string, an array), and JSON objects.
Bodies ==
    {[kind |-> k, prompt |-> "", mode |-> "absent", model |-> "absent"] :
        k \in {"unparsable", "null", "scalar"}}
    \cup {[kind |-> "object", prompt |-> p, mode |-> m, model |-> md] :
            p \in Prompts, m \in Modes, md \in Models}

\* parseThrows with null destructured like an empty object.
parseThrowsOnSyntaxOnly(b) == b.kind = "unparsable"

\* Whether `const { prompt, mode, model } = await req.json()` throws:
\* req.json() rejects on text that is no JSON, and null cannot be destructured.
parseThrows(b) == b.kind \in {"unparsable", "null"}

\* The destructured request, with the defaults mode = 'fusion', model = 'both'.
destructure(b) ==
    [prompt |-> b.prompt,
     mode |-> IF b.mode = "absent" THEN "fusion" ELSE b.mode,
     model |-> IF b.model = "absent" THEN "both" ELSE b.model]

\* The second push decided by wantOpenAI: callOpenAI needs the key for every
\* model.
dispatchWantOpenAI(model, openaiKey) ==
    (IF model = "both" \/ model = "gemini" THEN <<"callGemini">> ELSE <<>>)
    \o (IF (model = "both" \/ model = "openai") /\ openaiKey
        THEN <<"callOpenAI">> ELSE <<>>)

\* The adapter calls pushed to `calls`, in order.
dispatch(model, openaiKey) ==
    (IF model = "both" \/ model = "gemini" THEN <<"callGemini">> ELSE <<>>)
    \o (IF model = "openai" \/ (model = "both" /\ openaiKey)
        THEN <<"callOpenAI">> ELSE <<>>)

\* A call as it stands when the adapter function returns its promise: pending
\* on the network, or already settled with the missing-key failure.
startCall(fn, geminiKey, openaiKey) ==
    IF (fn = "callGemini" /\ callGeminiIssues(geminiKey))
       \/ (fn = "callOpenAI" /\ callOpenAIIssues(openaiKey))
    THEN [fn |-> fn, settled |-> FALSE, r |-> Failure]
    ELSE [fn |-> fn, settled |-> TRUE, r |-> Failure]

\* A join that resumes only when every call has succeeded.
allSucceeded(cs) == \A i \in 1..Len(cs) : cs[i].settled /\ cs[i].r.ok

\* Promise.race in place of Promise.all: the first call to settle resumes POST.
firstSettled(cs) == \E i \in 1..Len(cs) : cs[i].settled

\* await Promise.all(calls) resumes once every promise in calls has settled;
\* the adapters catch their errors, so none of them rejects.
allSettled(cs) == \A i \in 1..Len(cs) : cs[i].settled

\* The results handed to the loop in the order the calls settled.
promiseAllAsCompleted(cs, ord) == [k \in 1..Len(ord) |-> cs[ord[k]]]

\* const results = await Promise.all(calls): the results in the order of
\* calls, whatever the order ord in which the calls settled.
promiseAll(cs, ord) == cs

\* r.text || ''
textOrEmpty(r) == IF Truthy(r.text) THEN r.text.v ELSE <<>>

NoSlots == [gemT |-> <<>>, openT |-> <<>>, gemOk |-> FALSE, openOk |-> FALSE]

\* The positional branch with its two slots exchanged: a result of neither
\* shape goes to the OpenAI slot when the Gemini slot is empty.
classifyOneOpenAIFirst(st, r) ==
    IF Truthy(r.raw) /\ Truthy(Prop(r.raw, Str("candidates")))
    THEN [st EXCEPT !.gemOk = r.ok, !.gemT = textOrEmpty(r)]
    ELSE IF Truthy(r.raw) /\ Truthy(Prop(r.raw, Str("choices")))
    THEN [st EXCEPT !.openOk = r.ok, !.openT = textOrEmpty(r)]
    ELSE IF Truthy(r.text) /\ Len(r.text.v) > 0 /\ st.openT = <<>>
         THEN IF st.gemT = <<>>
              THEN [st EXCEPT !.openT = r.text.v, !.openOk = r.ok]
              ELSE [st EXCEPT !.gemT = r.text.v, !.gemOk = r.ok]
         ELSE st

\* One turn of the loop that maps results to the two slots.
classifyOne(st, r) ==
    IF Truthy(r.raw) /\ Truthy(Prop(r.raw, Str("candidates")))
    THEN [st EXCEPT !.gemOk = r.ok, !.gemT = textOrEmpty(r)]
    ELSE IF Truthy(r.raw) /\ Truthy(Prop(r.raw, Str("choices")))
    THEN [st EXCEPT !.openOk = r.ok, !.openT = textOrEmpty(r)]
    ELSE IF Truthy(r.text) /\ Len(r.text.v) > 0 /\ st.openT = <<>>
         THEN IF st.gemT = <<>>
              THEN [st EXCEPT !.gemT = r.text.v, !.gemOk = r.ok]
              ELSE [st EXCEPT !.openT = r.text.v, !.openOk = r.ok]
         ELSE st

\* The loop over results i.., in call order.
RECURSIVE classify(_, _, _)
classify(st, results, i) ==
    IF i > Len(results) THEN st
    ELSE classify(classifyOne(st, results[i].r), results, i + 1)

\* The placeholders of single mode and the text of the error reply, by code point.
NoReplyGemini ==
    <<"U+0644", "U+0627", " ", "U+0631", "U+062F", " ", "U+0645", "U+0646", " ">>
    \o Str("Gemini")
NoReplyOpenAI ==
    <<"U+0644", "U+0627", " ", "U+0631", "U+062F", " ", "U+0645", "U+0646", " ">>
    \o Str("OpenAI")
NoReplyAny == <<"U+0644", "U+0627", " ", "U+0631", "U+062F">>
ErrorReply ==
    <<"U+26A0", "U+FE0F", " ", "U+062D", "U+062F", "U+062B", " ",
      "U+062E", "U+0637", "U+0623", " ", "U+0641", "U+064A", " ",
      "U+0627", "U+0644", "U+0645", "U+0639", "U+0627", "U+0644", "U+062C", "U+0629">>

\* a || b on strings
orText(a, b) == IF a # <<>> THEN a ELSE b

\* singleReply with the two texts of model both tried in the other order.
singleReplyGeminiFirst(model, gemT, openT) ==
    IF model = "gemini" THEN orText(gemT, NoReplyGemini)
    ELSE IF model = "openai" THEN orText(openT, NoReplyOpenAI)
    ELSE orText(gemT, orText(openT, NoReplyAny))

\* The reply of single mode.
singleReply(model, gemT, openT) ==
    IF model = "gemini" THEN orText(gemT, NoReplyGemini)
    ELSE IF model = "openai" THEN orText(openT, NoReplyOpenAI)
    ELSE orText(openT, orText(gemT, NoReplyAny))

\* wantsSynthesis without the test that a text is non-empty.
wantsSynthesisKeyOnly(openaiKey, gemT, openT) == openaiKey

\* Whether fusion mode calls the synthesizer.
wantsSynthesis(openaiKey, gemT, openT) ==
    openaiKey /\ (gemT # <<>> \/ openT # <<>>)

\* NextResponse.json(body) and NextResponse.json(body, { status: 500 })
StatusOk == 200
StatusError == 500
response(status, reply) == [status |-> status, reply |-> reply]

\* synthResponse with a failed synthesis handed to the catch block.
synthResponseRethrows(s, gemT, openT) ==
    IF s.ok THEN response(StatusOk, s.text)
    ELSE response(StatusError, JStr(ErrorReply))

\* synthResponse without the test of s.ok.
synthResponseUnchecked(s, gemT, openT) == response(StatusOk, s.text)

\* The response once the synthesizer has returned s: its text when it
\* succeeded, the heuristic merge of the two texts when it failed.
synthResponse(s, gemT, openT) ==
    IF s.ok THEN response(StatusOk, s.text)
    ELSE response(StatusOk, JStr(heuristicMerge(gemT, openT)))

\* ------------------------------------------------------------ state

VARIABLES
    geminiKey,    \* whether process.env.GEMINI_API_KEY is set
    openaiKey,    \* whether process.env.OPENAI_API_KEY is set
    pc,           \* where POST stands: idle, awaitAll, awaitSynth, done
    body,         \* the body of the request being handled
    calls,        \* the promises given to Promise.all, in call order
    net,          \* HTTP requests issued so far, per issuing function
    slots,        \* gemT, openT, gemOk, openOk once the results are mapped
    collected,    \* whether the results have been mapped
    synthCalls,   \* invocations of synthesizeWithOpenAI
    synth,        \* the synthesizer's result once it has one
    responses,    \* the responses POST has returned for this request
    nreq,         \* the number of the request being handled
    order,        \* the indices of calls in the order the calls settled
    synthArgs,    \* the two texts passed to synthesizeWithOpenAI
    mPc,          \* heuristicMerge called on its own: ready, done
    mA,           \* its first argument
    mB,           \* its second argument
    mOut,         \* its result
    mHist,        \* the calls of heuristicMerge so far: arguments and result
    cMessages,    \* Chat: the state messages
    cInput,       \* Chat: the state input
    cLoading,     \* Chat: the state loading
    cMode,        \* Chat: the state mode
    cModel,       \* Chat: the state model
    cInFlight,    \* Chat: the requests posted by send() and not yet answered
    cSent,        \* Chat: how many requests send() has posted
    cStored       \* Chat: the messages kept in localStorage

postVars == <<geminiKey, openaiKey, pc, body, calls, net, slots, collected,
              synthCalls, synth, responses, nreq, order, synthArgs>>
mergeVars == <<mPc, mA, mB, mOut, mParts, mHist>>
chatVars == <<cMessages, cInput, cLoading, cMode, cModel, cInFlight, cSent, cStored>>
vars == <<postVars, mergeVars, chatVars>>

NoBody == [kind |-> "none", prompt |-> "", mode |-> "absent", model |-> "absent"]
NoNet == [callGemini |-> 0, callOpenAI |-> 0, synthesizeWithOpenAI |-> 0]
NoArgs == [geminiText |-> <<>>, openaiText |-> <<>>]

\* The route between requests.
PostIdle ==
    /\ pc = "idle"
    /\ body = NoBody
    /\ calls = <<>>
    /\ net = NoNet
    /\ slots = NoSlots
    /\ collected = FALSE
    /\ synthCalls = 0
    /\ synth = Failure
    /\ responses = <<>>
    /\ order = <<>>
    /\ synthArgs = NoArgs

MergeIdle ==
    /\ mPc = "ready" /\ mA = <<>> /\ mB = <<>> /\ mOut = <<>>
    /\ mParts = [script |-> <<>>, video |-> <<>>, general |-> <<>>]
    /\ mHist = <<>>

\* The Chat component as first rendered, with nothing in localStorage.
ChatIdle ==
    /\ cMessages = <<>>
    /\ cInput = <<>>
    /\ cLoading = FALSE
    /\ cMode = "fusion"
    /\ cModel = "both"
    /\ cInFlight = <<>>
    /\ cSent = 0
    /\ cStored = <<>>

Init ==
    /\ geminiKey \in BOOLEAN
    /\ openaiKey \in BOOLEAN
    /\ PostIdle
    /\ nreq = 1
    /\ MergeIdle
    /\ ChatIdle

\* ------------------------------------------------------------ POST

\* The request in hand, destructured.
req == destructure(body)

\* POST up to `await Promise.all(calls)`: the body is read and destructured,
\* the calls are chosen and started; a body that cannot be read or
\* destructured goes to the catch block, which answers 500.
Receive(b) ==
    /\ pc = "idle"
    /\ body' = b
    /\ IF parseThrows(b)
       THEN /\ responses' = Append(responses, response(StatusError, JStr(ErrorReply)))
            /\ pc' = "done"
            /\ UNCHANGED <<calls, net, order>>
       ELSE LET fns == dispatch(destructure(b).model, openaiKey)
                issued(fn) == Cardinality({i \in 1..Len(fns) :
                                  fns[i] = fn /\ ~startCall(fn, geminiKey, openaiKey).settled})
            IN /\ calls' = [i \in 1..Len(fns) |-> startCall(fns[i], geminiKey, openaiKey)]
               /\ order' = SelectSeq([i \in 1..Len(fns) |-> i],
                                     LAMBDA i : startCall(fns[i], geminiKey, openaiKey).settled)
               /\ net' = [net EXCEPT !.callGemini = @ + issued("callGemini"),
                                     !.callOpenAI = @ + issued("callOpenAI")]
               /\ pc' = "awaitAll"
               /\ UNCHANGED responses
    /\ UNCHANGED <<geminiKey, openaiKey, slots, collected, synthCalls, synth, nreq,
                   synthArgs>>
    /\ UNCHANGED <<mergeVars, chatVars>>

\* The HTTP call of a pending callGemini ends and callGemini returns.
GeminiReturns(i, http) ==
    /\ pc = "awaitAll"
    /\ i \in 1..Len(calls)
    /\ calls[i].fn = "callGemini" /\ ~calls[i].settled
    /\ calls' = [calls EXCEPT ![i] = [fn |-> "callGemini", settled |-> TRUE,
                                      r |-> callGemini(http)]]
    /\ net' = [net EXCEPT !.callGemini = @ + reissued(http)]
    /\ order' = Append(order, i)
    /\ UNCHANGED <<geminiKey, openaiKey, pc, body, slots, collected,
                   synthCalls, synth, responses, nreq, synthArgs>>
    /\ UNCHANGED <<mergeVars, chatVars>>

\* The HTTP call of a pending callOpenAI ends and callOpenAI returns.
OpenAIReturns(i, http) ==
    /\ pc = "awaitAll"
    /\ i \in 1..Len(calls)
    /\ calls[i].fn = "callOpenAI" /\ ~calls[i].settled
    /\ calls' = [calls EXCEPT ![i] = [fn |-> "callOpenAI", settled |-> TRUE,
                                      r |-> callOpenAI(http)]]
    /\ net' = [net EXCEPT !.callOpenAI = @ + reissued(http)]
    /\ order' = Append(order, i)
    /\ UNCHANGED <<geminiKey, openaiKey, pc, body, slots, collected,
                   synthCalls, synth, responses, nreq, synthArgs>>
    /\ UNCHANGED <<mergeVars, chatVars>>

\* Promise.all resolves: the results are mapped to the slots, then single
\* mode answers, and fusion mode either calls the synthesizer or answers with
\* the heuristic merge.
Collect ==
    /\ pc = "awaitAll"
    /\ allSettled(calls)
    /\ LET st == classify(NoSlots, promiseAll(calls, order), 1) IN
       /\ slots' = st
       /\ collected' = TRUE
       /\ IF req.mode = "single"
          THEN /\ responses' = Append(responses,
                     response(StatusOk, JStr(singleReply(req.model, st.gemT, st.openT))))
               /\ pc' = "done"
               /\ UNCHANGED <<net, synthCalls, synth>>
          ELSE IF wantsSynthesis(openaiKey, st.gemT, st.openT)
               THEN /\ synthCalls' = synthCalls + 1
                    /\ IF synthesizeIssues(openaiKey)
                       THEN /\ net' = [net EXCEPT !.synthesizeWithOpenAI = @ + 1]
                            /\ pc' = "awaitSynth"
                            /\ UNCHANGED <<synth, responses>>
                       ELSE /\ synth' = Failure
                            /\ responses' = Append(responses,
                                  response(StatusOk, JStr(heuristicMerge(st.gemT, st.openT))))
                            /\ pc' = "done"
                            /\ UNCHANGED net
               ELSE /\ responses' = Append(responses,
                          response(StatusOk, JStr(heuristicMerge(st.gemT, st.openT))))
                    /\ pc' = "done"
                    /\ UNCHANGED <<net, synthCalls, synth>>
       /\ synthArgs' = IF req.mode # "single" /\ wantsSynthesis(openaiKey, st.gemT, st.openT)
                       THEN [geminiText |-> st.gemT, openaiText |-> st.openT]
                       ELSE synthArgs
    /\ UNCHANGED <<geminiKey, openaiKey, body, calls, nreq, order>>
    /\ UNCHANGED <<mergeVars, chatVars>>

\* The synthesizer's HTTP call ends: its text is the reply when it succeeded,
\* the heuristic merge is when it failed.
SynthReturns(http) ==
    /\ pc = "awaitSynth"
    /\ LET s == synthesizeWithOpenAI(http) IN
       /\ synth' = s
       /\ responses' = Append(responses, synthResponse(s, slots.gemT, slots.openT))
    /\ net' = [net EXCEPT !.synthesizeWithOpenAI = @ + reissued(http)]
    /\ pc' = "done"
    /\ UNCHANGED <<geminiKey, openaiKey, body, calls, slots, collected,
                   synthCalls, nreq, order, synthArgs>>
    /\ UNCHANGED <<mergeVars, chatVars>>

\* The next request arrives: nothing of the last one is kept.
NextRequest ==
    /\ pc = "done"
    /\ nreq < MaxRequests
    /\ nreq' = nreq + 1
    /\ pc' = "idle"
    /\ body' = NoBody
    /\ calls' = <<>>
    /\ net' = NoNet
    /\ slots' = NoSlots
    /\ collected' = FALSE
    /\ synthCalls' = 0
    /\ synth' = Failure
    /\ responses' = <<>>
    /\ order' = <<>>
    /\ synthArgs' = NoArgs
    /\ UNCHANGED <<geminiKey, openaiKey>>
    /\ UNCHANGED <<mergeVars, chatVars>>

Next ==
    \/ \E b \in Bodies : Receive(b)
    \/ \E i \in 1..2, http \in GeminiHttp : GeminiReturns(i, http)
    \/ \E i \in 1..2, http \in OpenAIHttp : OpenAIReturns(i, http)
    \/ Collect
    \/ \E http \in OpenAIHttp : SynthReturns(http)
    \/ NextRequest

Spec == Init /\ [][Next]_vars

\* The steps of Collect, told by what they do to pc: POST leaves
\* `await Promise.all(calls)` for the synthesizer call or for a response.
Resumes == pc = "awaitAll" /\ allSettled(calls) /\ pc' \in {"awaitSynth", "done"}

\* The steps of SynthReturns, told by what they do to pc: POST leaves
\* `await synthesizeWithOpenAI(...)` for a response.
SynthEnds == pc = "awaitSynth" /\ pc' = "done"

\* Every upstream HTTP call that is pending ends at some time, and the event
\* loop resumes POST once what it awaits has settled.
Fairness ==
    /\ WF_vars(\E i \in 1..2, http \in GeminiHttp : GeminiReturns(i, http))
    /\ WF_vars(\E i \in 1..2, http \in OpenAIHttp : OpenAIReturns(i, http))
    /\ WF_pc(Resumes)
    /\ WF_pc(SynthEnds)

SpecLive == Init /\ [][Next]_vars /\ Fairness

\* ------------------------------------------------------------ heuristicMerge alone

\* Characters put before a reply: a letter whose upper case is longer than
\* itself, and a space.
PadChars == {SharpS, " "}

\* The strings of at most MaxPad pad characters.
Pads == UNION {[1..n -> PadChars] : n \in 0..MaxPad}

\* Replies without padding: empty, plain text of several lengths, JSON
\* documents, a JSON string that holds a marker, text that is nearly JSON, and
\* text with markers in either case, alone, repeated across buckets, or with
\* nothing after them.
MergeCores ==
    {Str(""), Str("Hello"), Str("a longer plain reply"),
     Str("{\"a\":1}"), Str("{\"b\":2}"), Str("\"VIDEO: q\""), Str("{\"a\":1"),
     Str("SCRIPT: Hello"), Str("VIDEO: World"), Str("script:hi"),
     Str("ASSETS: a"), Str("TRANSCRIPT: t"), Str("SCRIPT: s VIDEO: v"),
     Str("Video:")}

MergeInputs == {pad \o core : pad \in Pads, core \in MergeCores}

InitMerge ==
    /\ geminiKey = TRUE
    /\ openaiKey = TRUE
    /\ PostIdle
    /\ nreq = 1
    /\ mPc = "ready"
    /\ mA \in MergeInputs
    /\ mB \in MergeInputs
    /\ mOut = <<>>
    /\ mParts = [script |-> <<>>, video |-> <<>>, general |-> <<>>]
    /\ mHist = <<>>
    /\ ChatIdle

\* heuristicMerge(mA, mB) is called and returns.
MergeCall ==
    /\ mPc = "ready"
    /\ mOut' = heuristicMerge(mA, mB)
    /\ mPc' = "done"
    /\ UNCHANGED <<mA, mB, mParts, mHist>>
    /\ UNCHANGED <<postVars, chatVars>>

NextMerge == MergeCall

SpecMerge == InitMerge /\ [][NextMerge]_vars

\* ------------------------------------------------------------ heuristicMerge called repeatedly

\* Calls of heuristicMerge in one run of the process.
MaxCalls == 3

\* Replies for repeated calls: plain text, text with a marker, a JSON document.
RepeatInputs == {Str("Hello"), Str("SCRIPT: a"), Str("{\"a\":1}")}

InitRepeat ==
    /\ geminiKey = TRUE
    /\ openaiKey = TRUE
    /\ PostIdle
    /\ nreq = 1
    /\ MergeIdle
    /\ ChatIdle

\* The parts object when heuristicMerge(geminiText, openaiText) returns: both
\* extractByMarker calls are made whether or not the result uses them, except
\* on the JSON path, which returns before parts is declared.
partsAtReturn(geminiText, openaiText) ==
    IF JSONparse(geminiText).ok /\ JSONparse(openaiText).ok
    THEN mParts
    ELSE extractByMarker(extractByMarker(EmptyParts, geminiText), openaiText)

\* heuristicMerge(a, b) is called once more in the same process and returns.
MergeAgain(a, b) ==
    /\ Len(mHist) < MaxCalls
    /\ mA' = a
    /\ mB' = b
    /\ mOut' = heuristicMerge(a, b)
    /\ mParts' = partsAtReturn(a, b)
    /\ mHist' = Append(mHist, [a |-> a, b |-> b, out |-> heuristicMerge(a, b)])
    /\ mPc' = "done"
    /\ UNCHANGED <<postVars, chatVars>>

NextRepeat == \E a \in RepeatInputs, b \in RepeatInputs : MergeAgain(a, b)

SpecRepeat == InitRepeat /\ [][NextRepeat]_vars

\* ------------------------------------------------------------ Chat

\* What the user types into the input: nothing, a space, a question.
InputTexts == {Str(""), Str(" "), Str("hi")}

\* The text shown when the response carries no reply, and the text shown when
\* the request failed, by code point.
NoReplyArrived ==
    <<"U+0644", "U+0645", " ", "U+064A", "U+0635", "U+0644", " ", "U+0631",
      "U+062F", ".">>
RequestFailed ==
    <<"U+062D", "U+062F", "U+062B", " ", "U+062E", "U+0637", "U+0623", " ",
      "U+0623", "U+062B", "U+0646", "U+0627", "U+0621", " ", "U+0637", "U+0644",
      "U+0628", " ", "U+0627", "U+0644", "U+0646", "U+0645", "U+0648", "U+0630",
      "U+062C", ".">>

\* How a request to /api/chat ends: a response with a reply, a response
\* without one, or an error that axios throws.
PostOutcomes ==
    {[ok |-> TRUE, reply |-> Str("ok")], [ok |-> TRUE, reply |-> <<>>],
     [ok |-> FALSE, reply |-> <<>>]}

\* The sequence s without its element i.
RemoveAt(s, i) == SubSeq(s, 1, i - 1) \o SubSeq(s, i + 1, Len(s))

\* send() up to its await: nothing when the input is blank; else the user's
\* message is appended, the input cleared, loading set and the request posted.
send ==
    IF trim(cInput) = <<>>
    THEN UNCHANGED chatVars
    ELSE /\ cSent < MaxSends
         /\ cMessages' = Append(cMessages, [role |-> "user", text |-> cInput])
         /\ cStored' = Append(cMessages, [role |-> "user", text |-> cInput])
         /\ cInput' = <<>>
         /\ cLoading' = TRUE
         /\ cInFlight' = Append(cInFlight,
                [prompt |-> cInput, mode |-> cMode, model |-> cModel])
         /\ cSent' = cSent + 1
         /\ UNCHANGED <<cMode, cModel>>

\* <button onClick={send} disabled={loading}>: a click reaches send() only
\* while loading is false.
onClick ==
    /\ ~cLoading
    /\ send
    /\ UNCHANGED <<postVars, mergeVars>>

\* onKeyDown of the input: Enter calls send(), whatever loading is.
onKeyDown ==
    /\ send
    /\ UNCHANGED <<postVars, mergeVars>>

\* onChange of the input: setInput(e.target.value).
onChange(t) ==
    /\ cInput' = t
    /\ UNCHANGED <<cMessages, cLoading, cMode, cModel, cInFlight, cSent, cStored>>
    /\ UNCHANGED <<postVars, mergeVars>>

\* onChange of the two selects: setMode, setModel.
setMode(m) ==
    /\ cMode' = m
    /\ UNCHANGED <<cMessages, cInput, cLoading, cModel, cInFlight, cSent, cStored>>
    /\ UNCHANGED <<postVars, mergeVars>>

setModel(m) ==
    /\ cModel' = m
    /\ UNCHANGED <<cMessages, cInput, cLoading, cMode, cInFlight, cSent, cStored>>
    /\ UNCHANGED <<postVars, mergeVars>>

\* clearChat(): the messages are dropped, in the state and in localStorage.
clearChat ==
    /\ cMessages' = <<>>
    /\ cStored' = <<>>
    /\ UNCHANGED <<cInput, cLoading, cMode, cModel, cInFlight, cSent>>
    /\ UNCHANGED <<postVars, mergeVars>>

\* The request in flight i ends with outcome out and its send() runs on: the
\* assistant's message is appended, and finally loading is set to false.
PostEnds(i, out) ==
    /\ i \in 1..Len(cInFlight)
    /\ LET text == IF ~out.ok THEN RequestFailed
                   ELSE IF out.reply # <<>> THEN out.reply ELSE NoReplyArrived
       IN /\ cMessages' = Append(cMessages, [role |-> "assistant", text |-> text])
          /\ cStored' = Append(cMessages, [role |-> "assistant", text |-> text])
    /\ cLoading' = FALSE
    /\ cInFlight' = RemoveAt(cInFlight, i)
    /\ UNCHANGED <<cInput, cMode, cModel, cSent>>
    /\ UNCHANGED <<postVars, mergeVars>>

InitChat ==
    /\ geminiKey = TRUE
    /\ openaiKey = TRUE
    /\ PostIdle
    /\ nreq = 1
    /\ MergeIdle
    /\ ChatIdle

NextChat ==
    \/ onClick
    \/ onKeyDown
    \/ \E t \in InputTexts : onChange(t)
    \/ \E m \in {"fusion", "single"} : setMode(m)
    \/ \E m \in {"both", "gemini", "openai"} : setModel(m)
    \/ clearChat
    \/ \E i \in 1..MaxSends, out \in PostOutcomes : PostEnds(i, out)

SpecChat == InitChat /\ [][NextChat]_vars

\* ------------------------------------------------------------ claims

\* The request in hand has been answered.
Answered == pc = "done" /\ Len(responses) = 1

\* The reply and the status of the answer.
Reply == responses[1].reply
Status == responses[1].status

\* At least one of the two collected texts is non-empty.
SomeText == slots.gemT # <<>> \/ slots.openT # <<>>

\* The synthesizer was called and has returned.
SynthReturned == pc = "done" /\ synthCalls = 1

\* C1: a request whose body is a JSON object gets exactly one response, with
\* status 200, whatever the adapter calls and the synthesizer call end with
\* (missing credential, HTTP error, reply field absent, success): never 500.
C1_ObjectBodyAnswered200 ==
    /\ Len(responses) <= 1
    /\ (pc = "done") = (Len(responses) = 1)
    /\ body.kind = "object" =>
          \A i \in 1..Len(responses) : responses[i].status = StatusOk

\* C1's case: every upstream call of a fusion request failed (an adapter
\* without its key, an adapter with an HTTP error, a failed synthesis or none)
\* and the request was still answered with 200.
C1_Witness ==
    /\ Answered /\ body.kind = "object" /\ req.mode = "fusion" /\ req.model = "both"
    /\ \A i \in 1..Len(calls) : ~calls[i].r.ok
    /\ ~geminiKey /\ openaiKey /\ Len(calls) = 2
    /\ synthCalls = 0
    /\ Status = StatusOk

\* C2: in fusion mode with the OpenAI key present and at least one collected
\* text non-empty, a failed synthesis is answered with status 200 and the reply
\* heuristicMerge(gemT, openT), never with the error response.
C2_FailedSynthesisFallsBack ==
    (/\ pc = "done" /\ collected /\ req.mode = "fusion"
     /\ openaiKey /\ SomeText /\ synthCalls = 1 /\ ~synth.ok)
    => responses = <<response(StatusOk, JStr(heuristicMerge(slots.gemT, slots.openT)))>>

\* C2's case: the synthesizer was called for two non-empty texts and failed.
C2_Witness ==
    /\ SynthReturned /\ req.mode = "fusion" /\ openaiKey /\ ~synth.ok
    /\ slots.gemT = Str("Hi") /\ slots.openT = Str("SCRIPT: x")
    /\ Status = StatusOk

\* C3: in fusion mode the synthesizer is called iff the OpenAI key is present
\* and a collected text is non-empty; the reply is its text when it was called
\* and succeeded, and the heuristic merge of the two texts in every other
\* fusion case; in single mode it is never called.
C3_SynthesisIffKeyAndText ==
    /\ synthCalls <= 1
    /\ net.synthesizeWithOpenAI <= synthCalls
    /\ (collected /\ req.mode = "single") => synthCalls = 0
    /\ (collected /\ req.mode = "fusion") =>
          /\ (synthCalls = 1) = (openaiKey /\ SomeText)
          /\ pc = "done" =>
                IF synthCalls = 1 /\ synth.ok
                THEN responses = <<response(StatusOk, synth.text)>>
                ELSE responses =
                       <<response(StatusOk, JStr(heuristicMerge(slots.gemT, slots.openT)))>>
    /\ ~collected => synthCalls = 0

\* C3's case: a fusion request whose synthesis succeeded with a text.
C3_Witness ==
    /\ SynthReturned /\ req.mode = "fusion" /\ synth.ok
    /\ Reply = JStr(Str("Hi")) /\ slots.gemT = Str("7") /\ slots.openT = <<>>

\* C4: in single mode the reply comes from the slot texts alone: gemT or
\* Gemini's placeholder for model gemini, openT or OpenAI's placeholder for
\* model openai, openT else gemT else the generic placeholder for model both;
\* and with model gemini and a successful callGemini returning text t the reply
\* is t, for every prompt.
C4_SingleModeReply ==
    (pc = "done" /\ collected /\ req.mode = "single") =>
        /\ Status = StatusOk
        /\ req.model = "gemini" =>
              /\ Reply = JStr(IF slots.gemT # <<>> THEN slots.gemT ELSE NoReplyGemini)
              /\ calls[1].r.ok => Reply = calls[1].r.text
        /\ req.model = "openai" =>
              Reply = JStr(IF slots.openT # <<>> THEN slots.openT ELSE NoReplyOpenAI)
        /\ req.model = "both" =>
              Reply = JStr(IF slots.openT # <<>> THEN slots.openT
                           ELSE IF slots.gemT # <<>> THEN slots.gemT ELSE NoReplyAny)

\* C4's case: single mode, model both, both adapters returned a text.
C4_Witness ==
    /\ Answered /\ req.mode = "single" /\ req.model = "both"
    /\ slots.gemT = Str("Hi") /\ slots.openT = Str("7")
    /\ Reply = JStr(Str("7"))

\* C5: without the OpenAI key, mode single with model openai is answered
\* with status 200 and OpenAI's placeholder, for every prompt; no HTTP
\* request is made and the 500 path is not taken.
C5_NoKeySingleOpenAI ==
    (~openaiKey /\ body.kind = "object" /\ req.mode = "single" /\ req.model = "openai") =>
        /\ net.callOpenAI = 0
        /\ pc = "done" => responses = <<response(StatusOk, JStr(NoReplyOpenAI))>>

\* C5's case: such a request, answered.
C5_Witness ==
    /\ Answered /\ ~openaiKey /\ req.mode = "single" /\ req.model = "openai"
    /\ body.prompt = "hi" /\ Len(calls) = 1 /\ ~calls[1].r.ok
    /\ Reply = JStr(NoReplyOpenAI)

\* C6: callGemini, callOpenAI and synthesizeWithOpenAI each issue no HTTP
\* request when their key is absent, and return a failure result.
C6_NoKeyNoNetwork ==
    /\ ~geminiKey =>
          /\ net.callGemini = 0
          /\ \A i \in 1..Len(calls) :
                (calls[i].fn = "callGemini" /\ calls[i].settled) => ~calls[i].r.ok
    /\ ~openaiKey =>
          /\ net.callOpenAI = 0 /\ net.synthesizeWithOpenAI = 0
          /\ \A i \in 1..Len(calls) :
                (calls[i].fn = "callOpenAI" /\ calls[i].settled) => ~calls[i].r.ok

\* C7: every result with ok set that an adapter returns carries a string as
\* text: the serialization of the raw payload when the reply field is absent.
C7_SuccessHasText ==
    \A i \in 1..Len(calls) :
        (calls[i].settled /\ calls[i].r.ok) =>
            /\ calls[i].r.text.t = "str"
            /\ (calls[i].r.raw \in {NoCandidates, NoChoices, EmptyObject}) =>
                  calls[i].r.text = JSONstringify(calls[i].r.raw, 0)

BothParse == JSONparse(mA).ok /\ JSONparse(mB).ok

\* { merged: { gemini: x, openai: y } }
MergedDocument(x, y) ==
    JObj(<< <<Str("merged"),
              JObj(<< <<Str("gemini"), x>>, <<Str("openai"), y>> >>)>> >>)

\* C9: heuristicMerge returns a structured result iff both replies parse as
\* JSON; the result then parses as JSON to one document that holds Gemini's
\* parsed value under "gemini" and OpenAI's under "openai"; otherwise the
\* result is no JSON and is the one of the marker or longest-wins path.
C9_StructuredIffBothParse ==
    mPc = "done" =>
        /\ JSONparse(mOut).ok = BothParse
        /\ BothParse =>
              JSONparse(mOut).val
                = MergedDocument(JSONparse(mA).val, JSONparse(mB).val)
        /\ ~BothParse => startsWith(mOut, Str("--Merged "))

\* C9's case: the replies {"a":1} and {"b":2}, merged into one document.
C9_Witness ==
    /\ mPc = "done" /\ mA = Str("{\"a\":1}") /\ mB = Str("{\"b\":2}")
    /\ JSONparse(mOut).ok
    /\ Prop(Prop(JSONparse(mOut).val, Str("merged")), Str("openai"))
         = JObj(<< <<Str("b"), JNum(2)>> >>)

\* Marker m stands in txt at the 0-based offset k, letter case ignored.
MarkerAt(txt, m, k) ==
    /\ k + Len(m) <= Len(txt)
    /\ \A j \in 1..Len(m) : UpperChar(txt[k + j]) = <<m[j]>>

HasMarker(txt, m) == \E k \in 0..Len(txt) : MarkerAt(txt, m, k)

\* The text of txt that follows the first occurrence of marker m, trimmed.
AfterMarker(txt, m) ==
    LET k == CHOOSE k \in 0..Len(txt) :
                MarkerAt(txt, m, k) /\ \A k2 \in 0..(k - 1) : ~MarkerAt(txt, m, k2)
    IN trim(slice(txt, k + Len(m)))

\* What txt gives to a section for marker m: a line with the text after m.
Contribution(txt, m) ==
    IF HasMarker(txt, m) THEN <<"\n">> \o AfterMarker(txt, m) ELSE <<>>

\* The sections the two replies should give: Script from SCRIPT:, Video from
\* VIDEO:, Other from ASSETS: and TRANSCRIPT:, Gemini's text first; a section
\* whose markers occur in neither reply is left out.
ExpectedSections(a, b) ==
    LET script == Contribution(a, markers[1]) \o Contribution(b, markers[1])
        video == Contribution(a, markers[2]) \o Contribution(b, markers[2])
        other == Contribution(a, markers[3]) \o Contribution(a, markers[4])
                 \o Contribution(b, markers[3]) \o Contribution(b, markers[4])
    IN SectionsHeader
       \o (IF script # <<>> THEN ScriptHeading \o script \o <<"\n">> ELSE <<>>)
       \o (IF video # <<>> THEN VideoHeading \o video \o <<"\n">> ELSE <<>>)
       \o (IF other # <<>> THEN OtherHeading \o other \o <<"\n">> ELSE <<>>)

\* A marker occurs in one of the two replies.
SomeMarker ==
    \E i \in 1..Len(markers) : HasMarker(mA, markers[i]) \/ HasMarker(mB, markers[i])

\* C10: when a reply holds a marker (in any letter case) and the structured
\* path did not apply, the result is the sections Script, Video, Other in that
\* order, each with the text that follows its marker to the end of the reply,
\* and without the sections whose marker occurs in neither reply.
C10_MarkerSections ==
    (mPc = "done" /\ ~BothParse /\ SomeMarker) => mOut = ExpectedSections(mA, mB)

\* The reply or, for an empty reply, the text "(no reply)".
Shown(txt) == IF txt = <<>> THEN Str("(no reply)") ELSE txt

\* The reply of strictly greater length, OpenAI's when the lengths are equal.
Preferred(a, b) ==
    IF Len(a) > Len(b) THEN a ELSE IF Len(b) > Len(a) THEN b ELSE b

\* C11: when the two replies do not both parse as JSON and neither holds a
\* marker, the result shows both replies under the headings [From Gemini] and
\* [From OpenAI], an empty reply as "(no reply)", and then under [Preferred]
\* the reply of strictly greater length, OpenAI's when the lengths are equal.
C11_LongestWins ==
    (mPc = "done" /\ ~BothParse /\ ~SomeMarker) =>
        mOut = Str("--Merged result (heuristic)--\n\n[From Gemini]\n") \o Shown(mA)
               \o Str("\n\n[From OpenAI]\n") \o Shown(mB)
               \o Str("\n\n[Preferred]\n") \o Preferred(mA, mB) \o <<"\n">>

\* C11's case: two plain replies of lengths 5 and 20; the longer one is
\* preferred.
C11_Witness ==
    /\ mPc = "done" /\ mA = Str("Hello") /\ mB = Str("a longer plain reply")
    /\ ~BothParse /\ ~SomeMarker
    /\ SubSeq(mOut, Len(mOut) - 32, Len(mOut))
         = Str("[Preferred]\na longer plain reply\n")

C13_WaitForAll ==
    (collected \/ synthCalls > 0 \/ Len(responses) > 0) =>
        \A i \in 1..Len(calls) : calls[i].settled

\* C13's case: two adapter calls went to the network, both have returned and
\* the synthesizer has been called.
C13_Witness ==
    /\ pc = "awaitSynth" /\ collected /\ synthCalls = 1
    /\ Len(calls) = 2
    /\ net.callGemini = 1 /\ net.callOpenAI = 1
    /\ calls[1].settled /\ calls[2].settled

\* The text the call of adapter fn produced, empty when it produced none or
\* fn was not called.
TextOf(fn) ==
    IF \E i \in 1..Len(calls) : calls[i].fn = fn
    THEN textOrEmpty(calls[CHOOSE i \in 1..Len(calls) : calls[i].fn = fn].r)
    ELSE <<>>

\* C14: once the results are mapped, the Gemini slot holds the text of
\* callGemini's result and the OpenAI slot the text of callOpenAI's result,
\* in whichever order the two calls settled and whatever the payload shapes.
C14_SlotsByProducer ==
    collected => /\ slots.gemT = TextOf("callGemini")
                 /\ slots.openT = TextOf("callOpenAI")

\* C14's case: callOpenAI settled before callGemini, Gemini's payload has
\* neither candidates nor choices, and both calls produced a text.
C14_Witness ==
    /\ collected /\ Len(calls) = 2 /\ order = <<2, 1>>
    /\ calls[1].r.raw = EmptyObject
    /\ slots.gemT = Str("{}") /\ slots.openT = Str("Hi")

\* The raw payload of r has neither candidates nor choices.
NeitherShape(r) ==
    /\ ~(Truthy(r.raw) /\ Truthy(Prop(r.raw, Str("candidates"))))
    /\ ~(Truthy(r.raw) /\ Truthy(Prop(r.raw, Str("choices"))))

\* The slots before and after the loop's turn for result i.
SlotsBefore(i) == classify(NoSlots, SubSeq(calls, 1, i - 1), 1)
SlotsAfter(i) == classify(NoSlots, SubSeq(calls, 1, i), 1)

\* C15: in the loop over the results, taken in call order, a result whose
\* payload has neither candidates nor choices gives its text to the Gemini
\* slot when that slot is empty at its turn, and to the OpenAI slot otherwise.
C15_PositionalFallback ==
    collected =>
        \A i \in 1..Len(calls) :
            NeitherShape(calls[i].r) =>
                IF SlotsBefore(i).gemT = <<>>
                THEN SlotsAfter(i).gemT = textOrEmpty(calls[i].r)
                ELSE SlotsAfter(i).openT = textOrEmpty(calls[i].r)

\* C15's case: the only call is callGemini, its payload is {} and its text,
\* the payload serialized, is in the Gemini slot.
C15_Witness ==
    /\ collected /\ Len(calls) = 1 /\ calls[1].fn = "callGemini"
    /\ NeitherShape(calls[1].r) /\ calls[1].r.text = JStr(Str("{}"))
    /\ slots.gemT = Str("{}") /\ slots.openT = <<>>

\* How many entries of calls are calls of adapter fn.
Invocations(fn) == Cardinality({i \in 1..Len(calls) : calls[i].fn = fn})

\* C16: in one request callGemini, callOpenAI and synthesizeWithOpenAI are
\* each invoked at most once and each posts at most one HTTP request, so at
\* most three upstream requests are made, also after a call has failed.
C16_AtMostOnceEach ==
    /\ Invocations("callGemini") <= 1
    /\ Invocations("callOpenAI") <= 1
    /\ synthCalls <= 1
    /\ net.callGemini <= 1
    /\ net.callOpenAI <= 1
    /\ net.synthesizeWithOpenAI <= 1
    /\ net.callGemini + net.callOpenAI + net.synthesizeWithOpenAI <= 3

\* C16's case: a request answered after three upstream requests, of which
\* callGemini's and the synthesizer's failed.
C16_Witness ==
    /\ Answered /\ Len(calls) = 2
    /\ net.callGemini = 1 /\ net.callOpenAI = 1 /\ net.synthesizeWithOpenAI = 1
    /\ ~calls[1].r.ok /\ calls[2].r.ok
    /\ synthCalls = 1 /\ ~synth.ok

\* The body of the request in hand was read and destructured.
Started == pc # "idle" /\ ~parseThrows(body)

\* callOpenAI was called and returned a failure.
OpenAIFailed ==
    \E i \in 1..Len(calls) :
        calls[i].fn = "callOpenAI" /\ calls[i].settled /\ ~calls[i].r.ok

\* C17: callGemini is called exactly when model is both or gemini, callOpenAI
\* exactly when model is openai, or model is both and the OpenAI key is set,
\* and no adapter for any other model. With model both and the OpenAI key
\* unset or callOpenAI failed, callGemini was still called and its text makes
\* the reply: it is the single-mode reply, it is what the synthesizer was
\* given, or it is what heuristicMerge was given.
C17_Dispatch ==
    Started =>
        /\ (Invocations("callGemini") = 1) <=> (req.model \in {"both", "gemini"})
        /\ (Invocations("callOpenAI") = 1)
              <=> (req.model = "openai" \/ (req.model = "both" /\ openaiKey))
        /\ req.model \notin {"both", "gemini", "openai"} => calls = <<>>
        /\ (req.model = "both" /\ Answered /\ (~openaiKey \/ OpenAIFailed)) =>
              /\ Invocations("callGemini") = 1
              /\ slots.gemT = TextOf("callGemini")
              /\ slots.openT = <<>>
              /\ IF req.mode = "single"
                 THEN Reply = JStr(IF slots.gemT # <<>> THEN slots.gemT ELSE NoReplyAny)
                 ELSE IF synthCalls = 1 /\ synth.ok
                 THEN synthArgs = [geminiText |-> slots.gemT, openaiText |-> <<>>]
                      /\ Reply = synth.text
                 ELSE Reply = JStr(heuristicMerge(slots.gemT, <<>>))

\* C17's case: model both with the key set, callOpenAI failed, and the
\* single-mode reply is callGemini's text.
C17_Witness ==
    /\ Answered /\ Started /\ req.model = "both" /\ req.mode = "single"
    /\ openaiKey /\ OpenAIFailed
    /\ Invocations("callGemini") = 1
    /\ slots.gemT = Str("Hi") /\ Reply = JStr(Str("Hi"))

\* C18: when every pending upstream call ends at some time, a request that
\* POST has started to handle is answered at some time.
C18_EventuallyResponds ==
    (pc \in {"awaitAll", "awaitSynth"}) ~> (pc = "done" /\ Len(responses) = 1)

\* C18's case: a request answered after it waited for two adapter calls, one
\* of which failed, and then for the synthesizer.
C18_Witness ==
    /\ pc = "done" /\ Len(responses) = 1
    /\ Len(calls) = 2 /\ order = <<2, 1>> /\ ~calls[2].r.ok
    /\ net.synthesizeWithOpenAI = 1 /\ synth.ok

\* C19: in the Chat component loading is true whenever a request posted by
\* send() has not been answered yet.
C19_LoadingWhilePending == cInFlight # <<>> => cLoading

====
